---- MODULE Spec2Model ----
(***************************************************************************)
(* gbindgen (src/gmain.rs): the generation pipeline of one process run,    *)
(*   Cargo::load -> Config::from_root_or_default -> version macro block    *)
(*   -> Builder::generate -> write_to_file / write(stdout),                *)
(* and successive runs over the same disk.                                 *)
(*                                                                         *)
(* Options (Rust Option<T>) are sequences of length 0 (None) or 1 (Some).  *)
(* A version string is the sequence of its dotted numeric components.      *)
(* Environment assumptions: the external calls return, standard output is  *)
(* writable and the destination of -o is writable (main has no error path  *)
(* for a write: write_to_file returns a bool).                             *)
(***************************************************************************)
EXTENDS Integers, Sequences, FiniteSets, TLC

\* ------------------------------------------------------------------ bounds
MaxRuns == 2      \* process runs over the same disk
MaxArg == 9       \* CHECK_VERSION arguments range over 0..MaxArg

\* --------------------------------------------------------- program constants
TabWidth == 4     \* bindgen_config.tab_width
ExitError == 1    \* std::process::exit(1)
ExitChanged == 2  \* std::process::exit(2)
ExitOk == 0       \* main returns
ExitPanic == 101  \* a panic (unwrap / expect) unwinding out of main
NoExit == 0 - 1   \* the process has not terminated

None == <<>>
Some(x) == <<x>>
IsSome(o) == Len(o) = 1
Unwrap(o) == o[1]

Range(s) == {s[i] : i \in 1..Len(s)}

\* ------------------------------------------------------------ the disk
Dirs == {"input", "crate"}          \* the INPUT path and another directory
OutPath == "out.h"

RecognizedKeys == {"sys_includes", "namespace"}

\* A gbindgen.toml: kind "absent" (no such file), "unreadable" (exists, the
\* read fails), "syntax" (is not TOML), or "toml" with the keys it sets.
CfgFile(kind, keys, inc, ns) ==
    [kind |-> kind, keys |-> keys, sys_includes |-> inc, namespace |-> ns]

ConfigFiles ==
    { CfgFile("absent", {}, <<>>, ""),
      CfgFile("unreadable", {}, <<>>, ""),
      CfgFile("syntax", {}, <<>>, ""),
      CfgFile("toml", {}, <<>>, ""),
      CfgFile("toml", {"namespace"}, <<>>, "my_lib"),
      CfgFile("toml", {"sys_includes"}, <<"glib.h">>, ""),
      CfgFile("toml", {"sys_includes", "namespace"}, <<"glib.h", "gio.h">>, "Foo"),
      CfgFile("toml", {"namespace", "bogus"}, <<>>, "my_lib") }

\* The version of the binding crate in the metadata: Option<String>.
Versions ==
    { None, Some(<<1, 2>>), Some(<<1, 2, 3>>), Some(<<2, 0, 5>>), Some(<<0, 10, 8>>) }

Worlds ==
    [ cargoOk  : BOOLEAN,                  \* Cargo::load succeeds
      crateDir : {None} \cup {Some(d) : d \in Dirs},   \* find_crate_dir
      configs  : [Dirs -> ConfigFiles],    \* <dir>/gbindgen.toml
      version  : Versions,
      genOk    : BOOLEAN ]                 \* Builder::generate succeeds

Args == [ out : {None, Some(OutPath)}, verify : BOOLEAN ]

\* ------------------------------------------------------------ Config
DefaultConfig == [sys_includes |-> <<>>, namespace |-> None]

Ok(x) == [ok |-> TRUE, val |-> Some(x)]
Err(e) == [ok |-> FALSE, val |-> None]

\* toml::from_str::<Config> under deny_unknown_fields and default
TomlFromStr(f) ==
    IF f.kind = "syntax" \/ ~(f.keys \subseteq RecognizedKeys)
    THEN Err("parse")
    ELSE Ok([sys_includes |-> IF "sys_includes" \in f.keys
                               THEN f.sys_includes ELSE DefaultConfig.sys_includes,
             namespace    |-> IF "namespace" \in f.keys
                               THEN Some(f.namespace) ELSE DefaultConfig.namespace])

FromFile(f) ==
    IF f.kind \in {"absent", "unreadable"} THEN Err("open") ELSE TomlFromStr(f)

\* The mutant: a failed load falls back to the defaults.
FromRootOrDefaultLenient(f) ==
    IF f.kind # "absent" /\ FromFile(f).ok THEN FromFile(f) ELSE Ok(DefaultConfig)

\* Config::from_root_or_default: an Err result is the panic of unwrap().
FromRootOrDefault(f) ==
    IF f.kind # "absent" THEN FromFile(f) ELSE Ok(DefaultConfig)

\* ------------------------------------------------------- version macros
\* semver::Version::parse: major.minor.patch
SemverParse(v) == IF Len(v) = 3 THEN Some(v) ELSE None

\* Display of an unsigned integer: its decimal digits
RECURSIVE ToDecimal(_)
ToDecimal(n) == IF n < 10 THEN <<n>> ELSE Append(ToDecimal(n \div 10), n % 10)

\* The value the C preprocessor gives an integer literal: a leading 0 makes
\* it octal.
RECURSIVE DigitsValue(_, _)
DigitsValue(d, base) ==
    IF d = <<>> THEN 0
    ELSE DigitsValue(SubSeq(d, 1, Len(d) - 1), base) * base + d[Len(d)]
CLiteral(d) == IF Len(d) > 1 /\ d[1] = 0 THEN DigitsValue(Tail(d), 8)
               ELSE DigitsValue(d, 10)

\* heck::ShoutySnakeCase on the namespaces of ConfigFiles
ToShoutySnakeCase(s) ==
    CASE s = "my_lib" -> "MY_LIB"
      [] s = "Foo" -> "FOO"
      [] OTHER -> s

\* The text of after_includes: the three #define lines, by their values.
AfterIncludes(ns, version) ==
    [ ns    |-> ToShoutySnakeCase(ns),
      major |-> ToDecimal(version[1]),
      minor |-> ToDecimal(version[2]),
      micro |-> ToDecimal(version[3]) ]

CheckVersionMicroStrict(ai, major, minor, micro) ==
    LET MAJOR_VERSION == CLiteral(ai.major)
        MINOR_VERSION == CLiteral(ai.minor)
        MICRO_VERSION == CLiteral(ai.micro)
    IN  \/ MAJOR_VERSION > major
        \/ (MAJOR_VERSION = major /\ MINOR_VERSION > minor)
        \/ (MAJOR_VERSION = major /\ MINOR_VERSION = minor /\ MICRO_VERSION > micro)

\* {ns}_CHECK_VERSION(major,minor,micro) as the preprocessor expands it
CheckVersion(ai, major, minor, micro) ==
    LET MAJOR_VERSION == CLiteral(ai.major)
        MINOR_VERSION == CLiteral(ai.minor)
        MICRO_VERSION == CLiteral(ai.micro)
    IN  \/ MAJOR_VERSION > major
        \/ (MAJOR_VERSION = major /\ MINOR_VERSION > minor)
        \/ (MAJOR_VERSION = major /\ MINOR_VERSION = minor /\ MICRO_VERSION >= micro)

\* ------------------------------------------------------------ generator
\* Builder::new()...generate(): the content of the header, as a function of
\* what the builder was given.
Bindings(cfg, crateName) ==
    [ header         |-> crateName,
      gobject        |-> TRUE,
      tab_width      |-> cfg.tab_width,
      sys_includes   |-> cfg.sys_includes,
      after_includes |-> cfg.after_includes ]

\* A file at the output path that no run of gbindgen wrote.
StaleContent ==
    [ header         |-> "edited by hand",
      gobject        |-> TRUE,
      tab_width      |-> TabWidth,
      sys_includes   |-> <<>>,
      after_includes |-> Some(AfterIncludes("", <<0, 0, 0>>)) ]

\* Bindings::write_to_file: the file's new content and whether it changed.
WriteToFile(old, new) ==
    [ content |-> Some(new), changed |-> old # Some(new) ]

\* ------------------------------------------------------------ state
VARIABLES
    world,        \* the on-disk inputs of the runs
    args,         \* the command line of the current run
    stage,        \* the pipeline state of the current run
    trace,        \* the pipeline states the current run went through
    config,       \* Option<Config>: load_bindings' local `config`
    settings,     \* Option: bindgen_config once after_includes is set
    bindings,     \* Option<Bindings>: main's local `bindings`
    error,        \* the error kind of the run ("" while there is none)
    exitCode,     \* the process exit code, NoExit while running
    genCalls,     \* calls of Builder::generate in the current run
    consulted,    \* directories whose gbindgen.toml the run looked at
    file,         \* Option: the content of the file at OutPath
    fileAtStart,  \* file when the current run started
    stdout,       \* what the current run wrote to standard output
    runs,         \* runs started so far
    prev          \* the previous run: how it ended and whether inputs changed

vars == << world, args, stage, trace, config, settings, bindings, error,
           exitCode, genCalls, consulted, file, fileAtStart, stdout, runs, prev >>

Failed == {"LocationFailed", "ConfigFailed", "VersionCompositionFailed",
           "GenerationFailed", "WriteFailed"}
Terminal == Failed \cup {"Written"}
Terminated == stage \in Terminal

NoPrev == [written |-> FALSE, file |-> None, sameInputs |-> FALSE]

Init ==
    /\ world \in Worlds
    /\ args \in Args
    /\ stage = "Start"
    /\ trace = <<"Start">>
    /\ config = None
    /\ settings = None
    /\ bindings = None
    /\ error = ""
    /\ exitCode = NoExit
    /\ genCalls = 0
    /\ consulted = {}
    /\ file \in {None, Some(StaleContent)}
    /\ fileAtStart = file
    /\ stdout = <<>>
    /\ runs = 1
    /\ prev = NoPrev

Enter(s) == stage' = s /\ trace' = Append(trace, s)

\* The Err arm of main: log and std::process::exit(1)
ExitWithError(kind) == error' = kind /\ exitCode' = ExitError

\* unwrap()/expect() on None or Err: the thread panics, the process ends
Panic(kind) == error' = kind /\ exitCode' = ExitPanic

\* Cargo::load(...)?
LoadCargo ==
    /\ stage = "Start"
    /\ IF world.cargoOk
       THEN Enter("Located") /\ UNCHANGED <<error, exitCode>>
       ELSE Enter("LocationFailed") /\ ExitWithError("LocationError")
    /\ UNCHANGED << world, args, config, settings, bindings, genCalls, consulted,
                    file, fileAtStart, stdout, runs, prev >>

\* The mutant: the configuration is always looked for in the input path.
ConfigRootInputOnly == "input"

\* The directory the configuration is loaded from.
ConfigRoot ==
    IF IsSome(world.crateDir) THEN Unwrap(world.crateDir) ELSE "input"

ResolveConfig ==
    /\ stage = "Located"
    /\ consulted' = consulted \cup {ConfigRoot}
    /\ LET r == FromRootOrDefault(world.configs[ConfigRoot])
       IN  IF r.ok
           THEN /\ config' = r.val
                /\ Enter("Configured")
                /\ UNCHANGED <<error, exitCode>>
           ELSE /\ config' = config
                /\ Enter("ConfigFailed")
                /\ Panic("ConfigError")
    /\ UNCHANGED << world, args, settings, bindings, genCalls, file, fileAtStart,
                    stdout, runs, prev >>

\* The mutant: without a namespace the macro block is left out.
ComposeVersionMacrosSkipping ==
    /\ stage = "Configured"
    /\ LET cfg == Unwrap(config)
           version == IF IsSome(world.version)
                      THEN SemverParse(Unwrap(world.version)) ELSE None
       IN  IF ~IsSome(version)
           THEN /\ Enter("VersionCompositionFailed")
                /\ Panic("VersionParseError")
                /\ UNCHANGED settings
           ELSE /\ Enter("VersionComposed")
                /\ settings' = Some(
                     [ tab_width      |-> TabWidth,
                       sys_includes   |-> cfg.sys_includes,
                       after_includes |->
                           IF IsSome(cfg.namespace)
                           THEN Some(AfterIncludes(Unwrap(cfg.namespace), Unwrap(version)))
                           ELSE None ])
                /\ UNCHANGED <<error, exitCode>>
    /\ UNCHANGED << world, args, config, bindings, genCalls, consulted, file,
                    fileAtStart, stdout, runs, prev >>

\* bindgen_config: defaults, tab_width, sys_includes, the parsed version and
\* the formatted after_includes
ComposeVersionMacros ==
    /\ stage = "Configured"
    /\ LET cfg == Unwrap(config)
           version == IF IsSome(world.version)
                      THEN SemverParse(Unwrap(world.version)) ELSE None
       IN  IF ~IsSome(version)
           THEN /\ Enter("VersionCompositionFailed")
                /\ Panic("VersionParseError")
                /\ UNCHANGED settings
           ELSE IF ~IsSome(cfg.namespace)
           THEN /\ Enter("VersionCompositionFailed")
                /\ Panic("NamespaceMissingError")
                /\ UNCHANGED settings
           ELSE /\ Enter("VersionComposed")
                /\ settings' = Some(
                     [ tab_width      |-> TabWidth,
                       sys_includes   |-> cfg.sys_includes,
                       after_includes |-> Some(AfterIncludes(Unwrap(cfg.namespace),
                                                             Unwrap(version))) ])
                /\ UNCHANGED <<error, exitCode>>
    /\ UNCHANGED << world, args, config, bindings, genCalls, consulted, file,
                    fileAtStart, stdout, runs, prev >>

\* The mutant: a failed generation is tried once more.
GenerateRetrying ==
    /\ stage = "VersionComposed"
    /\ genCalls' = genCalls + 1
    /\ IF world.genOk
       THEN /\ bindings' = Some(Bindings(Unwrap(settings), "binding crate"))
            /\ Enter("Generated")
            /\ UNCHANGED <<error, exitCode>>
       ELSE IF genCalls = 0
       THEN UNCHANGED <<bindings, stage, trace, error, exitCode>>
       ELSE /\ bindings' = bindings
            /\ Enter("GenerationFailed")
            /\ ExitWithError("GenerationError")
    /\ UNCHANGED << world, args, config, settings, consulted, file, fileAtStart,
                    stdout, runs, prev >>

\* Builder::new()....generate(), and main's match on the result
Generate ==
    /\ stage = "VersionComposed"
    /\ genCalls' = genCalls + 1
    /\ IF world.genOk
       THEN /\ bindings' = Some(Bindings(Unwrap(settings), "binding crate"))
            /\ Enter("Generated")
            /\ UNCHANGED <<error, exitCode>>
       ELSE /\ bindings' = bindings
            /\ Enter("GenerationFailed")
            /\ ExitWithError("GenerationError")
    /\ UNCHANGED << world, args, config, settings, consulted, file, fileAtStart,
                    stdout, runs, prev >>

\* The mutant: --verify alone selects the file at the default path.
FileModeOrVerify(a) == IsSome(a.out) \/ a.verify

\* match matches.value_of("out"): Some(file) is the file mode
FileMode(a) == IsSome(a.out)

\* The mutant: any change is reported, --verify or not.
DriftExitAnyChange(verify, changed) == IF changed THEN ExitChanged ELSE ExitOk

\* The mutant: --verify reports a change whatever the comparison said.
DriftExitVerifyOnly(verify, changed) == IF verify THEN ExitChanged ELSE ExitOk

\* if matches.is_present("verify") && changed { exit(2) }, else main returns
DriftExit(verify, changed) == IF verify /\ changed THEN ExitChanged ELSE ExitOk

\* The mutant: a verify run that finds a difference reports it and leaves the
\* file alone.
WriteOutputDryRun ==
    /\ stage = "Generated"
    /\ Enter("Written")
    /\ IF FileMode(args)
       THEN LET w == WriteToFile(file, Unwrap(bindings))
            IN  /\ file' = IF args.verify /\ w.changed THEN file ELSE w.content
                /\ exitCode' = DriftExit(args.verify, w.changed)
                /\ UNCHANGED stdout
       ELSE /\ stdout' = Append(stdout, Unwrap(bindings))
            /\ exitCode' = ExitOk
            /\ UNCHANGED file
    /\ UNCHANGED << world, args, config, settings, bindings, error, genCalls,
                    consulted, fileAtStart, runs, prev >>

\* main: "Write the bindings file"
WriteOutput ==
    /\ stage = "Generated"
    /\ Enter("Written")
    /\ IF FileMode(args)
       THEN LET w == WriteToFile(file, Unwrap(bindings))
            IN  /\ file' = w.content
                /\ exitCode' = DriftExit(args.verify, w.changed)
                /\ UNCHANGED stdout
       ELSE /\ stdout' = Append(stdout, Unwrap(bindings))
            /\ exitCode' = ExitOk
            /\ UNCHANGED file
    /\ UNCHANGED << world, args, config, settings, bindings, error, genCalls,
                    consulted, fileAtStart, runs, prev >>

\* The process has ended; gbindgen is started again over the same disk, with
\* a new command line, the crate's version possibly edited in between.
Rerun ==
    /\ Terminated
    /\ runs < MaxRuns
    /\ runs' = runs + 1
    /\ \E a \in Args, v \in Versions :
         /\ args' = a
         /\ world' = [world EXCEPT !.version = v]
         /\ prev' = [ written    |-> stage = "Written" /\ IsSome(args.out),
                      file       |-> file,
                      sameInputs |-> v = world.version ]
    /\ stage' = "Start"
    /\ trace' = <<"Start">>
    /\ config' = None
    /\ settings' = None
    /\ bindings' = None
    /\ error' = ""
    /\ exitCode' = NoExit
    /\ genCalls' = 0
    /\ consulted' = {}
    /\ fileAtStart' = file
    /\ stdout' = <<>>
    /\ UNCHANGED file

Step == LoadCargo \/ ResolveConfig \/ ComposeVersionMacros \/ Generate \/ WriteOutput

Next ==
    \/ LoadCargo
    \/ ResolveConfig
    \/ ComposeVersionMacros
    \/ Generate
    \/ WriteOutput
    \/ Rerun

Spec == Init /\ [][Next]_vars

\* A started process runs its straight-line code to the end.
FairSpec == Spec /\ WF_vars(Step)

\* ------------------------------------------------------------ properties

\* C1: every failed stage (location, configuration, crate version, namespace,
\* generation) ends the run with exit code exactly 1.
C1_FatalErrorExitsOne == stage \in Failed => exitCode = ExitError

\* C2: a terminated run has exit code 2 exactly when generation succeeded, -o
\* was given, --verify was set and the artifact differs from what the file
\* held when the run started (an absent file differs, and is then created);
\* a failed stage never exits 2 and a file-mode run without --verify exits 0.
C2_ExitTwoIffVerifiedDrift ==
    Terminated =>
        /\ exitCode = ExitChanged <=>
              /\ "Generated" \in Range(trace)
              /\ IsSome(args.out)
              /\ args.verify
              /\ fileAtStart # bindings
        /\ ( /\ "Generated" \in Range(trace)
             /\ IsSome(args.out) /\ args.verify /\ fileAtStart = None )
           => (file = bindings /\ file # None /\ exitCode = ExitChanged)
        /\ stage \in Failed => exitCode # ExitChanged
        /\ (stage = "Written" /\ IsSome(args.out) /\ ~args.verify) => exitCode = ExitOk

\* A --verify run created the absent output file and exited 2.
C2_Witness ==
    /\ Terminated /\ args.verify /\ IsSome(args.out)
    /\ fileAtStart = None /\ file = bindings /\ exitCode = ExitChanged

\* C3: after a run that wrote the output file, a run with the same inputs,
\* the same path and --verify exits 0 and leaves the file's content as the
\* first run left it.
C3_RoundTrip ==
    ( /\ Terminated
      /\ prev.written /\ prev.sameInputs
      /\ IsSome(args.out) /\ args.verify )
    => /\ stage = "Written"
       /\ exitCode = ExitOk
       /\ file = prev.file

\* The second run of a round trip has terminated.
C3_Witness ==
    /\ Terminated /\ runs = 2
    /\ prev.written /\ prev.sameInputs /\ prev.file # None
    /\ IsSome(args.out) /\ args.verify /\ exitCode = ExitOk

NamespaceOmitted == IsSome(config) /\ ~IsSome(Unwrap(config).namespace)
VersionParses == IsSome(world.version) /\ IsSome(SemverParse(Unwrap(world.version)))

\* C4 as stated: whenever the resolved configuration has no namespace, the run
\* fails at version-macro composition with NamespaceMissingError, the
\* generator is never called and the output file keeps its content.
C4_NamespaceMissingAlways ==
    (Terminated /\ NamespaceOmitted) =>
        /\ stage = "VersionCompositionFailed"
        /\ error = "NamespaceMissingError"
        /\ genCalls = 0 /\ bindings = None
        /\ file = fileAtStart

\* C4 amended: the same, for a crate version that parses; with an unparsable
\* version the run fails first on the version, and in both cases the
\* generator is never called and the output file keeps its content.
C4_NamespaceMissingWhenVersionParses ==
    (Terminated /\ NamespaceOmitted) =>
        /\ stage = "VersionCompositionFailed"
        /\ error = IF VersionParses THEN "NamespaceMissingError" ELSE "VersionParseError"
        /\ genCalls = 0 /\ bindings = None
        /\ file = fileAtStart

\* A run with the default configuration of an absent file failed for the
\* missing namespace, an output file being there.
C4_Witness ==
    /\ Terminated /\ NamespaceOmitted /\ VersionParses
    /\ config = Some(DefaultConfig)
    /\ error = "NamespaceMissingError"
    /\ IsSome(args.out) /\ IsSome(file)

\* Lexicographic >= on sequences of the same length
RECURSIVE LexGE(_, _)
LexGE(a, b) ==
    IF a = <<>> THEN TRUE
    ELSE IF Head(a) # Head(b) THEN Head(a) > Head(b)
    ELSE LexGE(Tail(a), Tail(b))

ArgRange == 0..MaxArg

\* C5: the emitted CHECK_VERSION(m, n, p) is true exactly when the crate's
\* (major, minor, patch) is lexicographically >= (m, n, p); for 1.2.3 it is
\* true of (1,2,3), (0,9,9), (1,2,2) and false of (1,2,4), (1,3,0).
C5_CheckVersionIsLexGE ==
    stage = "VersionComposed" =>
        LET ai == Unwrap(Unwrap(settings).after_includes)
            v == Unwrap(world.version)
        IN  /\ \A m \in ArgRange, n \in ArgRange, p \in ArgRange :
                  CheckVersion(ai, m, n, p) <=> LexGE(v, <<m, n, p>>)
            /\ v = <<1, 2, 3>> =>
                  /\ CheckVersion(ai, 1, 2, 3)
                  /\ CheckVersion(ai, 0, 9, 9)
                  /\ CheckVersion(ai, 1, 2, 2)
                  /\ ~CheckVersion(ai, 1, 2, 4)
                  /\ ~CheckVersion(ai, 1, 3, 0)

\* The macro block of version 1.2.3 has been composed.
C5_Witness ==
    /\ stage = "VersionComposed"
    /\ world.version = Some(<<1, 2, 3>>)
    /\ Unwrap(Unwrap(settings).after_includes).micro = <<3>>

\* C6: a run without -o whose generation succeeded wrote the artifact to
\* standard output, left the file alone and exited 0, --verify or not; no run
\* without -o exits 2.
C6_StreamMode ==
    /\ (Terminated /\ "Generated" \in Range(trace) /\ ~IsSome(args.out)) =>
          /\ stdout = <<Unwrap(bindings)>>
          /\ file = fileAtStart
          /\ exitCode = ExitOk
    /\ exitCode = ExitChanged => IsSome(args.out)

\* A stream-mode run with --verify has terminated.
C6_Witness ==
    /\ Terminated /\ ~IsSome(args.out) /\ args.verify
    /\ stdout # <<>> /\ exitCode = ExitOk

ConfigStageDone == stage \notin {"Start", "Located", "LocationFailed"}

\* C7: once the configuration stage has run on a root: an absent file gives
\* the default Configuration and no error; a file with recognized fields only
\* gives a Configuration whose fields are the file's (defaults for the fields
\* it leaves out); an unreadable file, a syntax error or an unrecognized field
\* gives ConfigError and no Configuration.
C7_ConfigResolver ==
    ConfigStageDone =>
        /\ consulted # {}
        /\ \A d \in consulted :
            LET f == world.configs[d]
            IN  CASE f.kind = "absent" ->
                       config = Some([sys_includes |-> <<>>, namespace |-> None])
                       /\ error # "ConfigError"
                  [] f.kind = "toml" /\ f.keys \subseteq RecognizedKeys ->
                       /\ IsSome(config)
                       /\ error # "ConfigError"
                       /\ Unwrap(config).sys_includes =
                            (IF "sys_includes" \in f.keys THEN f.sys_includes ELSE <<>>)
                       /\ Unwrap(config).namespace =
                            (IF "namespace" \in f.keys THEN Some(f.namespace) ELSE None)
                  [] OTHER ->
                       /\ stage = "ConfigFailed"
                       /\ error = "ConfigError"
                       /\ config = None
                       /\ settings = None /\ bindings = None

\* The configuration stage failed on a file with an unrecognized field.
C7_Witness ==
    /\ stage = "ConfigFailed"
    /\ \E d \in consulted :
          world.configs[d].kind = "toml" /\ "bogus" \in world.configs[d].keys

OriginalEdges ==
    { <<"Start", "Located">>, <<"Start", "LocationFailed">>,
      <<"Located", "Configured">>,
      <<"Configured", "VersionComposed">>, <<"Configured", "VersionCompositionFailed">>,
      <<"VersionComposed", "Generated">>, <<"VersionComposed", "GenerationFailed">>,
      <<"Generated", "Written">>, <<"Generated", "WriteFailed">> }

AmendedEdges == OriginalEdges \cup { <<"Located", "ConfigFailed">> }

\* The run's states so far are a path from Start along the edges, no state
\* entered twice.
IsPath(edges) ==
    /\ trace[1] = "Start"
    /\ trace[Len(trace)] = stage
    /\ \A i \in 1..(Len(trace) - 1) : <<trace[i], trace[i + 1]>> \in edges
    /\ \A i, j \in 1..Len(trace) : trace[i] = trace[j] => i = j

\* C8 as stated: every run is a path of the state machine in which Configured
\* is the only successor of Located.
C8_PathOfStatedMachine == IsPath(OriginalEdges)

\* C8 amended: every run is a path of the state machine with the edge
\* Located -> ConfigFailed added (VersionCompositionFailed standing for an
\* unparsable crate version as well as a missing namespace); the generator is
\* called at most once; after a terminal state the run does nothing more; and
\* every run reaches a terminal state.
C8_PathOfAmendedMachine ==
    /\ [](IsPath(AmendedEdges) /\ genCalls <= 1)
    /\ [][Terminated =>
            \/ runs' = runs + 1
            \/ UNCHANGED <<stage, trace, genCalls, file, stdout, exitCode>>]_vars
    /\ [][(stage' # stage /\ runs' = runs) => <<stage, stage'>> \in AmendedEdges]_vars
    /\ (~Terminated ~> Terminated)

\* A run ended in ConfigFailed straight after Located.
C8_Witness ==
    /\ trace = <<"Start", "Located", "ConfigFailed">>
    /\ exitCode # NoExit /\ genCalls = 0

\* C9: a terminated file-mode run whose generation succeeded has left the
\* artifact in the output file, whatever --verify and the exit code; a run
\* that exits 2 has overwritten or created the file.
C9_WriteBeforeDriftReport ==
    /\ (Terminated /\ "Generated" \in Range(trace) /\ IsSome(args.out)) => file = bindings
    /\ exitCode = ExitChanged => (file = bindings /\ file # fileAtStart)

\* A --verify run overwrote a differing file and exited 2.
C9_Witness ==
    /\ Terminated /\ args.verify /\ exitCode = ExitChanged
    /\ IsSome(fileAtStart) /\ file # fileAtStart /\ file = bindings

\* C10: the configuration stage looks at gbindgen.toml in exactly one
\* directory, the binding crate's when find_crate_dir gives one and the input
\* path otherwise, and the Configuration is that file's alone.
C10_ConfigRootSelection ==
    ConfigStageDone =>
        LET root == CASE world.crateDir = None -> "input"
                      [] OTHER -> world.crateDir[1]
            r == FromRootOrDefault(world.configs[root])
        IN  /\ consulted = {root}
            /\ config = r.val
            /\ (stage = "ConfigFailed") = ~r.ok

\* A run that fell back to the input path, the other directory holding a
\* different configuration, went through the whole pipeline.
C10_Witness ==
    /\ world.crateDir = None
    /\ stage = "Written"
    /\ consulted = {"input"}
    /\ world.configs["crate"] # world.configs["input"]

====
